---- MODULE Spec2Model ----
(***************************************************************************)
(* State-machine model of AttendanceDatabase (src/backend.py): the seven   *)
(* tables of the SQLite store and one action per data-access method.       *)
(* Dates are ISO 'YYYY-MM-DD' strings in the code; their lexicographic      *)
(* order is the calendar order, so they are modelled by day ordinals.      *)
(***************************************************************************)
EXTENDS Integers, Sequences, FiniteSets, TLC

VARIABLES professors, attendance_records, attendance_sessions, courses,
          professor_courses, admins, system_logs, op, ret, pc, req, files

tables == <<professors, attendance_records, attendance_sessions, courses,
            professor_courses, admins, system_logs>>
business == <<professors, attendance_records, attendance_sessions, courses,
              professor_courses, admins>>
vars == <<professors, attendance_records, attendance_sessions, courses,
          professor_courses, admins, system_logs, op, ret, pc, req, files>>

\* ---------------------------------------------------------------- bounds
\* Cap on the number of business rows the sequential model stores.
MaxRows == 2
\* Cap on system_logs for the calls that write an audit row but no business row.
MaxLogs == 3
\* Cap on the business rows the concurrent model stores.
MaxRaceRows == 4

\* ------------------------------------------------- environment and inputs
\* SQL NULL / Python None in an integer column (row ids start at 1).
NULL == 0
\* datetime.now() as a day ordinal; MonthStart is the first of its month.
Today == 10
MonthStart == 1

ProfIds == {"P1", "P2"}
Names == {"Ann"}
Departments == {"A", "B"}
Emails == {"e1"}
SessionIds == {1}
Days == {Today - 8, Today, Today + 1}
CourseCodes == {"C1", "C2"}
CourseIds == {1, 2}
Usernames == {"u1", "u2"}
Passwords == {"pw1", "pw2"}

\* dict.get(key, default)
Get(d, k, default) == IF k \in DOMAIN d THEN d[k] ELSE default

\* SQL '=' in a WHERE clause: a comparison with NULL never selects the row.
SqlEq(a, b) == a # NULL /\ b # NULL /\ a = b

\* a BETWEEN lo AND hi
Between(x, lo, hi) == lo <= x /\ x <= hi

Range(s) == {s[i] : i \in DOMAIN s}

RECURSIVE SumOver(_, _)
SumOver(f, S) == IF S = {} THEN 0
                 ELSE LET x == CHOOSE y \in S : TRUE
                      IN f[x] + SumOver(f, S \ {x})
SumFn(f) == SumOver(f, DOMAIN f)

TotalRows == Len(professors) + Len(attendance_records) + Len(attendance_sessions)
             + Len(courses) + Len(professor_courses) + Len(admins)

ProfessorInputs ==
    [id : ProfIds, name : Names, department : Departments]
    \cup [id : ProfIds, name : Names, department : Departments, email : Emails]

AttendanceInputs ==
    [professor_id : ProfIds, date : Days, time_in : {"08:00"}]
    \cup [professor_id : ProfIds, session_id : SessionIds, date : Days,
          time_in : {"08:00"}]

SessionInputs ==
    [session_type : {"Lecture"}, venue : {"Hall"}, date : {Today, Today + 1},
     start_time : {"08:00"}]

CourseInputs == [course_code : CourseCodes, course_name : {"Course"}]

AssignInputs == [professor_id : ProfIds, course_id : CourseIds]

AdminInputs == [username : Usernames, password : Passwords, full_name : {"Admin"}]

LoginInputs == [username : Usernames, password : Passwords]

\* filters of get_attendance_records / export_to_excel (<<>> is None or {});
\* every value supplied is non-empty, hence truthy
FilterInputs ==
    {<<>>} \cup [date : {Today}] \cup [department : {"B"}]
    \cup [start_date : {Today - 8}, end_date : {Today}]

\* arguments of export_to_excel: filters; output_path is omitted, so the
\* report goes to the default path
ExportInputs ==
    [filters : FilterInputs]

BackupPaths == {"backup.db"}

\* threads calling the data access layer at the same time
Callers == {1, 2}

\* the calls the concurrent callers issue
RaceAttendanceInputs ==
    {[professor_id |-> "P1", date |-> Today, time_in |-> "08:00"],
     [professor_id |-> "P1", session_id |-> 1, date |-> Today, time_in |-> "08:00"]}

RaceAssignInputs == [professor_id : {"P1"}, course_id : CourseIds]

RaceProfessorInputs ==
    [id : ProfIds, name : Names, department : {"A"}]
    \cup [id : ProfIds, name : Names, department : {"A"}, email : Emails]

Ok(m) == [ok |-> TRUE, msg |-> m]
Fail(m) == [ok |-> FALSE, msg |-> m]

\* A sequential call: op records the call (method, arguments, whether the
\* audit INSERT it issued failed) and ret the value it returned.
Returns(method, args, fail, value) ==
    /\ op' = [name |-> method, args |-> args, log_fail |-> fail]
    /\ ret' = value
    /\ UNCHANGED <<pc, req, files>>

\* ------------------------------------------------------------ log_action
\* A concurrent caller c moves to position p; its call and result are in req.
Moves(c, p, method, args, result) ==
    /\ pc' = [pc EXCEPT ![c] = p]
    /\ req' = [req EXCEPT ![c] = [method |-> method, args |-> args,
                                  result |-> result]]
    /\ UNCHANGED <<op, ret, files>>

Pending == [ok |-> FALSE, msg |-> "<running>"]

\* variant: INSERT OR REPLACE, the new row takes the place of the newest one
log_action_replacing(logs, action, details, fail) ==
    [logs   |-> IF fail THEN logs
                ELSE IF logs = <<>>
                THEN <<[id |-> 1, user_id |-> NULL,
                        action |-> action, details |-> details]>>
                ELSE [logs EXCEPT ![Len(logs)] =
                         [id |-> Len(logs), user_id |-> NULL,
                          action |-> action, details |-> details]],
     raised |-> FALSE]

\* variant: the error of a failed audit INSERT reaches the caller
log_action_propagating(logs, action, details, fail) ==
    [logs   |-> IF fail THEN logs
                ELSE Append(logs, [id |-> Len(logs) + 1, user_id |-> NULL,
                                   action |-> action, details |-> details]),
     raised |-> fail]

\* The INSERT into system_logs may fail (fail = TRUE); the except clause
\* swallows the error, so nothing is raised to the caller.
log_action(logs, action, details, fail) ==
    [logs   |-> IF fail THEN logs
                ELSE Append(logs, [id |-> Len(logs) + 1, user_id |-> NULL,
                                   action |-> action, details |-> details]),
     raised |-> FALSE]

\* ------------------------------------------------------------ professors
\* SELECT id FROM professors WHERE id = ? OR email = ?
professor_exists(rows, d) ==
    \E i \in DOMAIN rows :
        \/ rows[i].id = d.id
        \/ rows[i].email = Get(d, "email", "")

\* variant: the professors table declares no PRIMARY KEY / UNIQUE constraint
professor_constraints_none(rows, r) == TRUE

\* PRIMARY KEY (id) and UNIQUE (email) of the professors table.
professor_constraints_ok(rows, r) ==
    \A i \in DOMAIN rows : rows[i].id # r.id /\ rows[i].email # r.email

professor_row(d) ==
    [id |-> d.id, name |-> d.name, department |-> d.department,
     contact |-> Get(d, "contact", ""), email |-> Get(d, "email", ""),
     date_registered |-> Today, is_active |-> TRUE, role |-> "professor"]

AddProfessor ==
    \E d \in ProfessorInputs :
        IF professor_exists(professors, d)
        THEN /\ Returns("add_professor", d, FALSE,
                        Fail("Professor ID or email already exists"))
             /\ UNCHANGED tables
        ELSE IF ~professor_constraints_ok(professors, professor_row(d))
        THEN /\ Returns("add_professor", d, FALSE, Fail("Error adding professor"))
             /\ UNCHANGED tables
        ELSE \E fail \in BOOLEAN :
             LET la == log_action(system_logs, "ADD_PROFESSOR", d.id, fail)
             IN /\ TotalRows < MaxRows
                /\ professors' = Append(professors, professor_row(d))
                /\ system_logs' = la.logs
                /\ Returns("add_professor", d, fail,
                           IF la.raised THEN Fail("Error adding professor")
                           ELSE Ok("Professor added successfully"))
                /\ UNCHANGED <<attendance_records, attendance_sessions,
                               courses, professor_courses, admins>>

\* ------------------------------------------------------------ attendance
\* SELECT id FROM attendance_records
\*  WHERE professor_id = ? AND session_id = ? AND date = ?
attendance_exists(rows, d) ==
    \E i \in DOMAIN rows :
        /\ rows[i].professor_id = d.professor_id
        /\ SqlEq(rows[i].session_id, Get(d, "session_id", NULL))
        /\ rows[i].date = d.date

attendance_row(rows, d) ==
    [id |-> Len(rows) + 1, professor_id |-> d.professor_id,
     session_id |-> Get(d, "session_id", NULL), date |-> d.date,
     time_in |-> d.time_in, status |-> Get(d, "status", "Present"),
     venue |-> Get(d, "venue", ""), session_type |-> Get(d, "session_type", ""),
     remarks |-> Get(d, "remarks", "")]

\* variant: a UNIQUE index on the tuple silently rejects a second row
insert_attendance_unique(rows, d) ==
    IF \E i \in DOMAIN rows : /\ rows[i].professor_id = d.professor_id
                              /\ rows[i].session_id = Get(d, "session_id", NULL)
                              /\ rows[i].date = d.date
    THEN rows
    ELSE Append(rows, attendance_row(rows, d))

\* INSERT INTO attendance_records ...; commit (no constraint can reject it:
\* the table has no UNIQUE index and foreign keys are not enforced).
insert_attendance(rows, d) == Append(rows, attendance_row(rows, d))

RecordAttendance ==
    \E d \in AttendanceInputs :
        IF attendance_exists(attendance_records, d)
        THEN /\ Returns("record_attendance", d, FALSE,
                        Fail("Attendance already recorded for this session"))
             /\ UNCHANGED tables
        ELSE \E fail \in BOOLEAN :
             LET la == log_action(system_logs, "RECORD_ATTENDANCE",
                                  d.professor_id, fail)
             IN /\ TotalRows < MaxRows
                /\ attendance_records' = insert_attendance(attendance_records, d)
                /\ system_logs' = la.logs
                /\ Returns("record_attendance", d, fail,
                           IF la.raised THEN Fail("Error recording attendance")
                           ELSE Ok("Attendance recorded successfully"))
                /\ UNCHANGED <<professors, attendance_sessions, courses,
                               professor_courses, admins>>

\* -------------------------------------------------------------- sessions
session_row(rows, d) ==
    [id |-> Len(rows) + 1, session_type |-> d.session_type, venue |-> d.venue,
     remarks |-> Get(d, "remarks", ""), date |-> d.date,
     start_time |-> d.start_time, end_time |-> Get(d, "end_time", NULL),
     created_by |-> Get(d, "created_by", "system"),
     qr_code_data |-> Get(d, "qr_code_data", ""), is_active |-> TRUE]

CreateSession ==
    \E d \in SessionInputs, fail \in BOOLEAN :
        LET row == session_row(attendance_sessions, d)
            la  == log_action(system_logs, "CREATE_SESSION", row.id, fail)
        IN /\ TotalRows < MaxRows
           /\ attendance_sessions' = Append(attendance_sessions, row)
           /\ system_logs' = la.logs
           /\ Returns("create_attendance_session", d, fail,
                      IF la.raised
                      THEN [ok |-> FALSE, msg |-> "Error creating session", id |-> -1]
                      ELSE [ok |-> TRUE, msg |-> "Session created successfully",
                            id |-> row.id])
           /\ UNCHANGED <<professors, attendance_records, courses,
                          professor_courses, admins>>

\* --------------------------------------------------------------- courses
\* UNIQUE (course_code) of the courses table.
course_constraints_ok(rows, d) ==
    \A i \in DOMAIN rows : rows[i].course_code # d.course_code

course_row(rows, d) ==
    [id |-> Len(rows) + 1, course_code |-> d.course_code,
     course_name |-> d.course_name, department |-> Get(d, "department", ""),
     units |-> Get(d, "units", 3), semester |-> Get(d, "semester", "1st"),
     academic_year |-> Get(d, "academic_year", "2024-2025")]

AddCourse ==
    \E d \in CourseInputs :
        IF ~course_constraints_ok(courses, d)
        THEN /\ Returns("add_course", d, FALSE, Fail("Error adding course"))
             /\ UNCHANGED tables
        ELSE /\ TotalRows < MaxRows
             /\ courses' = Append(courses, course_row(courses, d))
             /\ Returns("add_course", d, FALSE, Ok("Course added successfully"))
             /\ UNCHANGED <<professors, attendance_records, attendance_sessions,
                            professor_courses, admins, system_logs>>

\* SELECT id FROM professor_courses WHERE professor_id = ? AND course_id = ?
assignment_exists(rows, d) ==
    \E i \in DOMAIN rows :
        /\ rows[i].professor_id = d.professor_id
        /\ rows[i].course_id = d.course_id

\* INSERT INTO professor_courses ...; commit (foreign keys are not enforced)
insert_assignment(rows, d) ==
    Append(rows, [id |-> Len(rows) + 1, professor_id |-> d.professor_id,
                  course_id |-> d.course_id, schedule |-> Get(d, "schedule", NULL),
                  room |-> Get(d, "room", NULL)])

AssignCourse ==
    \E d \in AssignInputs :
        IF assignment_exists(professor_courses, d)
        THEN /\ Returns("assign_course_to_professor", d, FALSE,
                        Fail("Course already assigned to this professor"))
             /\ UNCHANGED tables
        ELSE /\ TotalRows < MaxRows
             /\ professor_courses' = insert_assignment(professor_courses, d)
             /\ Returns("assign_course_to_professor", d, FALSE,
                        Ok("Course assigned successfully"))
             /\ UNCHANGED <<professors, attendance_records, attendance_sessions,
                            courses, admins, system_logs>>

RECURSIVE SeqOfSet(_)
\* the elements of a set of integers in ascending order
SeqOfSet(S) ==
    IF S = {} THEN <<>>
    ELSE LET m == CHOOSE x \in S : \A y \in S : x <= y
         IN <<m>> \o SeqOfSet(S \ {m})

\* professor_courses pc JOIN courses c ON pc.course_id = c.id
\* WHERE pc.professor_id = ? ORDER BY pc.schedule
\* (rows with equal schedule are listed in insertion order)
professor_schedule(pid) ==
    LET joined == {ij \in (DOMAIN professor_courses) \X (DOMAIN courses) :
                      /\ professor_courses[ij[1]].course_id = courses[ij[2]].id
                      /\ professor_courses[ij[1]].professor_id = pid}
        order  == SeqOfSet({ij[1] : ij \in joined})
    IN [k \in DOMAIN order |->
            LET a == professor_courses[order[k]]
                c == courses[CHOOSE j \in DOMAIN courses : <<order[k], j>> \in joined]
            IN [course_code |-> c.course_code, course_name |-> c.course_name,
                schedule |-> a.schedule, room |-> a.room,
                department |-> c.department]]

GetSchedule ==
    \E pid \in ProfIds :
        /\ Returns("get_professor_schedule", [professor_id |-> pid], FALSE,
                   professor_schedule(pid))
        /\ UNCHANGED tables

\* ---------------------------------------------------------------- admins
\* hashlib.sha256(password.encode()).hexdigest(): a digest, distinct for
\* distinct passwords and never equal to a password
Sha256(password) == <<"sha256", password>>

\* UNIQUE (username) of the admins table.
admin_constraints_ok(rows, username) ==
    \A i \in DOMAIN rows : rows[i].username # username

CreateAdmin ==
    \E d \in AdminInputs :
        IF ~admin_constraints_ok(admins, d.username)
        THEN /\ Returns("create_admin", d, FALSE, Fail("Username already exists"))
             /\ UNCHANGED tables
        ELSE /\ TotalRows < MaxRows
             /\ admins' = Append(admins,
                    [id |-> Len(admins) + 1, username |-> d.username,
                     password_hash |-> Sha256(d.password),
                     full_name |-> d.full_name, role |-> Get(d, "role", "admin")])
             /\ Returns("create_admin", d, FALSE, Ok("Admin created successfully"))
             /\ UNCHANGED <<professors, attendance_records, attendance_sessions,
                            courses, professor_courses, system_logs>>

\* variant: the password digest is not compared
admin_matches_username_only(row, username, password) ==
    row.username = username

\* SELECT * FROM admins WHERE username = ? AND password_hash = ?
admin_matches(row, username, password) ==
    row.username = username /\ row.password_hash = Sha256(password)

Authenticate ==
    \E d \in LoginInputs :
        LET found == {i \in DOMAIN admins :
                         admin_matches(admins[i], d.username, d.password)}
        IN IF found # {}
           THEN \E fail \in BOOLEAN :
                LET admin == admins[CHOOSE i \in found : \A j \in found : i <= j]
                    la    == log_action(system_logs, "ADMIN_LOGIN", d.username, fail)
                IN /\ Len(system_logs) < MaxLogs
                   /\ system_logs' = la.logs
                   /\ Returns("authenticate_admin", d, fail,
                              [ok |-> ~la.raised, raised |-> la.raised,
                               admin |-> IF la.raised THEN <<>> ELSE <<admin>>])
                   /\ UNCHANGED business
           ELSE /\ Returns("authenticate_admin", d, FALSE,
                           [ok |-> FALSE, raised |-> FALSE, admin |-> <<>>])
                /\ UNCHANGED tables

\* ------------------------------------------------------------- reporting
\* attendance_records ar JOIN professors p ON ar.professor_id = p.id,
\* as pairs <<index in attendance_records, index in professors>>.
JoinProfessors ==
    {ij \in (DOMAIN attendance_records) \X (DOMAIN professors) :
        attendance_records[ij[1]].professor_id = professors[ij[2]].id}

GCD(m, n) ==
    IF m = 0 THEN n
    ELSE IF n = 0 THEN m
    ELSE CHOOSE g \in 1..m : /\ m % g = 0 /\ n % g = 0
                             /\ \A h \in 1..m : (m % h = 0 /\ n % h = 0) => h <= g

\* An exact quotient n/d (d > 0) in lowest terms; Python computes a float.
Frac(n, d) == LET g == GCD(n, d) IN [num |-> n \div g, den |-> d \div g]

\* variant: the ratio is not scaled to a percentage
attendance_rate_unscaled(attended, total) ==
    IF total > 0 THEN Frac(attended, total) ELSE Frac(0, 1)

\* (attended / total * 100) if total > 0 else 0
attendance_rate(attended, total) ==
    IF total > 0 THEN Frac(attended * 100, total) ELSE Frac(0, 1)

ActiveProfessors == {j \in DOMAIN professors : professors[j].is_active}

\* get_attendance_summary(start_date, end_date)
attendance_summary(a, b) ==
    LET inRange == {i \in DOMAIN attendance_records :
                        Between(attendance_records[i].date, a, b)}
        joined  == {ij \in JoinProfessors : ij[1] \in inRange}
        depts   == {professors[ij[2]].department : ij \in joined}
        types   == {attendance_records[i].session_type : i \in inRange}
        pids    == {attendance_records[ij[1]].professor_id : ij \in joined}
    IN [total_attendance |-> Cardinality(inRange),
        by_department |->
            [dep \in depts |->
                Cardinality({ij \in joined : professors[ij[2]].department = dep})],
        by_session_type |->
            [t \in types |->
                Cardinality({i \in inRange : attendance_records[i].session_type = t})],
        \* top 10 by count; the model keeps the (name, count) pairs unordered
        top_professors |->
            {[name  |-> professors[ij[2]].name,
              count |-> Cardinality({kl \in joined :
                            attendance_records[kl[1]].professor_id
                              = attendance_records[ij[1]].professor_id})]
             : ij \in joined},
        date_range |-> <<a, b>>]

Summarize ==
    \E a \in Days, b \in Days :
        /\ Returns("get_attendance_summary", [start_date |-> a, end_date |-> b],
                   FALSE, attendance_summary(a, b))
        /\ UNCHANGED tables

\* get_daily_attendance_stats(date)
daily_attendance_stats(date) ==
    LET total    == Cardinality(ActiveProfessors)
        attended == Cardinality({attendance_records[i].professor_id :
                        i \in {k \in DOMAIN attendance_records :
                                 attendance_records[k].date = date}})
        depts    == {professors[j].department : j \in ActiveProfessors}
    IN [date |-> date,
        total_professors |-> total,
        attended_today |-> attended,
        attendance_rate |-> attendance_rate(attended, total),
        by_department |->
            [dep \in depts |->
                Cardinality({attendance_records[ij[1]].professor_id :
                    ij \in {kl \in JoinProfessors :
                              /\ kl[2] \in ActiveProfessors
                              /\ professors[kl[2]].department = dep
                              /\ attendance_records[kl[1]].date = date}})],
        absent_today |-> total - attended]

DailyStats ==
    \E a \in {<<>>} \cup [date : Days] :
        /\ Returns("get_daily_attendance_stats", a, FALSE,
                   daily_attendance_stats(Get(a, "date", Today)))
        /\ UNCHANGED tables

\* date(?, '-7 days')
DateMinusDays(d, n) == d - n

\* the "recent attendance" query of get_dashboard_stats
recent_attendance(today) ==
    LET recent == {i \in DOMAIN attendance_records :
                     attendance_records[i].date >= DateMinusDays(today, 7)}
    IN [d \in {attendance_records[i].date : i \in recent} |->
            Cardinality({i \in recent : attendance_records[i].date = d})]

dashboard_stats ==
    LET total == Cardinality(ActiveProfessors)
        today_attendance ==
            Cardinality({attendance_records[i].professor_id :
                i \in {k \in DOMAIN attendance_records :
                         attendance_records[k].date = Today}})
    IN [total_professors |-> total,
        today_attendance |-> today_attendance,
        month_attendance |->
            Cardinality({i \in DOMAIN attendance_records :
                Between(attendance_records[i].date, MonthStart, Today)}),
        active_sessions |->
            Cardinality({i \in DOMAIN attendance_sessions :
                /\ attendance_sessions[i].date = Today
                /\ attendance_sessions[i].is_active}),
        attendance_rate |-> attendance_rate(today_attendance, total),
        recent_attendance |-> recent_attendance(Today)]

DashboardStats ==
    /\ Returns("get_dashboard_stats", <<>>, FALSE, dashboard_stats)
    /\ UNCHANGED tables

\* ---------------------------------------------------------------- export
\* filters.get(key) is truthy
Has(f, k) == k \in DOMAIN f

\* the WHERE clause get_attendance_records builds from the filters, on the
\* joined pair of attendance row ar and professor row p
filter_matches(f, ar, p) ==
    /\ Has(f, "date") => ar.date = f.date
    /\ Has(f, "professor_id") => ar.professor_id = f.professor_id
    /\ Has(f, "session_type") => ar.session_type = f.session_type
    /\ Has(f, "department") => p.department = f.department
    /\ (Has(f, "start_date") /\ Has(f, "end_date"))
          => Between(ar.date, f.start_date, f.end_date)

RECURSIVE SortByDateDesc(_)
\* ORDER BY ar.date DESC, ar.time_in DESC over a set of joined pairs
\* (rows with equal keys are listed in insertion order)
SortByDateDesc(S) ==
    IF S = {} THEN <<>>
    ELSE LET first == CHOOSE x \in S : \A y \in S :
                 \/ attendance_records[x[1]].date > attendance_records[y[1]].date
                 \/ /\ attendance_records[x[1]].date = attendance_records[y[1]].date
                    /\ x[1] <= y[1]
         IN <<first>> \o SortByDateDesc(S \ {first})

\* get_attendance_records(filters): ar.* with p.name and p.department
get_attendance_records(f) ==
    LET matched == {ij \in JoinProfessors :
                       filter_matches(f, attendance_records[ij[1]],
                                      professors[ij[2]])}
        order   == SortByDateDesc(matched)
    IN [k \in DOMAIN order |->
            [record     |-> attendance_records[order[k][1]],
             name       |-> professors[order[k][2]].name,
             department |-> professors[order[k][2]].department]]

\* f"attendance_report_{timestamp}.xlsx"
DefaultExportPath == "attendance_report_<now>.xlsx"

\* variant: an empty result is exported like any other
nothing_to_export_never(records) == FALSE

\* if not records: return ""
nothing_to_export(records) == records = <<>>

\* export_to_excel(filters, output_path): the sheet holds one row per record
ExportToExcel ==
    \E a \in ExportInputs :
        LET path    == Get(a, "output_path", DefaultExportPath)
            records == get_attendance_records(a.filters)
        IN IF nothing_to_export(records)
           THEN /\ op' = [name |-> "export_to_excel", args |-> a,
                          log_fail |-> FALSE]
                /\ ret' = ""
                /\ UNCHANGED <<tables, pc, req, files>>
           ELSE \E fail \in BOOLEAN :
                LET la == log_action(system_logs, "EXPORT_EXCEL", path, fail)
                IN /\ Len(system_logs) < MaxLogs
                   /\ files' = (path :> [kind |-> "xlsx",
                                         rows |-> [k \in DOMAIN records |->
                                                      records[k].record.id]])
                               @@ files
                   /\ system_logs' = la.logs
                   /\ op' = [name |-> "export_to_excel", args |-> a,
                             log_fail |-> fail]
                   /\ ret' = IF la.raised THEN "<raised>" ELSE path
                   /\ UNCHANGED <<business, pc, req>>

\* backup_database(backup_path): an online copy of the store; copy_fails is a
\* failure of connect or backup, which is printed and answered with False
BackupDatabase ==
    \E path \in BackupPaths, copy_fails \in BOOLEAN :
        IF copy_fails
        THEN /\ op' = [name |-> "backup_database",
                       args |-> [backup_path |-> path], log_fail |-> FALSE]
             /\ ret' = FALSE
             /\ UNCHANGED <<tables, pc, req, files>>
        ELSE \E fail \in BOOLEAN :
             LET la == log_action(system_logs, "DATABASE_BACKUP", path, fail)
             IN /\ Len(system_logs) < MaxLogs
                /\ files' = (path :> [kind |-> "db", rows |-> tables]) @@ files
                /\ system_logs' = la.logs
                /\ op' = [name |-> "backup_database",
                          args |-> [backup_path |-> path], log_fail |-> fail]
                /\ ret' = ~la.raised
                /\ UNCHANGED <<business, pc, req>>

\* ---------------------------------------------------- concurrent callers
\* Each call opens its own connection; the SELECT of the existence check and
\* the INSERT with its commit are separate statements, each atomic in the
\* store, and log_action runs afterwards on a third connection.
CheckAttendance(c) ==
    /\ pc[c] \in {"idle", "done"}
    /\ \E d \in RaceAttendanceInputs :
          IF attendance_exists(attendance_records, d)
          THEN Moves(c, "done", "record_attendance", d,
                     Fail("Attendance already recorded for this session"))
          ELSE Moves(c, "insert_attendance", "record_attendance", d, Pending)
    /\ UNCHANGED tables

InsertAttendance(c) ==
    /\ pc[c] = "insert_attendance"
    /\ Len(attendance_records) + Len(professor_courses) < MaxRaceRows
    /\ attendance_records' = insert_attendance(attendance_records, req[c].args)
    /\ Moves(c, "log_attendance", req[c].method, req[c].args, Pending)
    /\ UNCHANGED <<professors, attendance_sessions, courses, professor_courses,
                   admins, system_logs>>

LogAttendance(c) ==
    /\ pc[c] = "log_attendance"
    /\ \E fail \in BOOLEAN :
          LET la == log_action(system_logs, "RECORD_ATTENDANCE",
                               req[c].args.professor_id, fail)
          IN /\ system_logs' = la.logs
             /\ Moves(c, "done", req[c].method, req[c].args,
                      IF la.raised THEN Fail("Error recording attendance")
                      ELSE Ok("Attendance recorded successfully"))
    /\ UNCHANGED business

CheckAssignment(c) ==
    /\ pc[c] \in {"idle", "done"}
    /\ \E d \in RaceAssignInputs :
          IF assignment_exists(professor_courses, d)
          THEN Moves(c, "done", "assign_course_to_professor", d,
                     Fail("Course already assigned to this professor"))
          ELSE Moves(c, "insert_assignment", "assign_course_to_professor", d,
                     Pending)
    /\ UNCHANGED tables

InsertAssignment(c) ==
    /\ pc[c] = "insert_assignment"
    /\ Len(attendance_records) + Len(professor_courses) < MaxRaceRows
    /\ professor_courses' = insert_assignment(professor_courses, req[c].args)
    /\ Moves(c, "done", req[c].method, req[c].args,
             Ok("Course assigned successfully"))
    /\ UNCHANGED <<professors, attendance_records, attendance_sessions, courses,
                   admins, system_logs>>

\* add_professor of a concurrent caller: existence check, then INSERT with
\* commit (an IntegrityError is caught by `except Exception`), then log_action.
CheckProfessor(c) ==
    /\ pc[c] \in {"idle", "done"}
    /\ \E d \in RaceProfessorInputs :
          IF professor_exists(professors, d)
          THEN Moves(c, "done", "add_professor", d,
                     Fail("Professor ID or email already exists"))
          ELSE Moves(c, "insert_professor", "add_professor", d, Pending)
    /\ UNCHANGED tables

InsertProfessor(c) ==
    /\ pc[c] = "insert_professor"
    /\ IF professor_constraints_ok(professors, professor_row(req[c].args))
       THEN /\ Len(professors) < MaxRaceRows
            /\ professors' = Append(professors, professor_row(req[c].args))
            /\ Moves(c, "log_professor", req[c].method, req[c].args, Pending)
            /\ UNCHANGED <<attendance_records, attendance_sessions, courses,
                           professor_courses, admins, system_logs>>
       ELSE /\ Moves(c, "done", req[c].method, req[c].args,
                     Fail("Error adding professor"))
            /\ UNCHANGED tables

LogProfessor(c) ==
    /\ pc[c] = "log_professor"
    /\ \E fail \in BOOLEAN :
          LET la == log_action(system_logs, "ADD_PROFESSOR", req[c].args.id, fail)
          IN /\ system_logs' = la.logs
             /\ Moves(c, "done", req[c].method, req[c].args,
                      IF la.raised THEN Fail("Error adding professor")
                      ELSE Ok("Professor added successfully"))
    /\ UNCHANGED business

\* --------------------------------------------------------------- initial
Init ==
    /\ professors = <<>>
    /\ attendance_records = <<>>
    /\ attendance_sessions = <<>>
    /\ courses = <<>>
    /\ professor_courses = <<>>
    /\ admins = <<>>
    /\ system_logs = <<>>
    /\ op = [name |-> "init", args |-> <<>>, log_fail |-> FALSE]
    /\ ret = Ok("")
    /\ pc = [c \in Callers |-> "idle"]
    /\ req = [c \in Callers |-> [method |-> "", args |-> <<>>, result |-> Ok("")]]
    /\ files = <<>>

NextAttendance ==
    \/ AddProfessor
    \/ RecordAttendance
    \/ Summarize
    \/ DailyStats
    \/ DashboardStats
SpecAttendance == Init /\ [][NextAttendance]_vars

NextCourses == AddCourse \/ AssignCourse \/ GetSchedule
SpecCourses == Init /\ [][NextCourses]_vars

NextAdmin == CreateAdmin \/ Authenticate
SpecAdmin == Init /\ [][NextAdmin]_vars

\* every method that writes a business row
NextAudit ==
    \/ AddProfessor
    \/ RecordAttendance
    \/ CreateSession
    \/ AddCourse
    \/ AssignCourse
    \/ CreateAdmin
SpecAudit == Init /\ [][NextAudit]_vars

NextRace ==
    \E c \in Callers :
        \/ CheckAttendance(c)
        \/ InsertAttendance(c)
        \/ LogAttendance(c)
        \/ CheckAssignment(c)
        \/ InsertAssignment(c)
SpecRace == Init /\ [][NextRace]_vars

NextExport == AddProfessor \/ RecordAttendance \/ ExportToExcel
SpecExport == Init /\ [][NextExport]_vars

\* every method that calls log_action, and create_admin, without which no
\* login succeeds
NextLog ==
    \/ AddProfessor
    \/ RecordAttendance
    \/ CreateSession
    \/ CreateAdmin
    \/ Authenticate
    \/ ExportToExcel
    \/ BackupDatabase
SpecLog == Init /\ [][NextLog]_vars

NextProfessorRace ==
    \E c \in Callers :
        \/ CheckProfessor(c)
        \/ InsertProfessor(c)
        \/ LogProfessor(c)
SpecProfessorRace == Init /\ [][NextProfessorRace]_vars

\* ================================================================ claims
SameTuple(r, q) ==
    /\ r.professor_id = q.professor_id
    /\ r.session_id = q.session_id
    /\ r.date = q.date

\* C1: the store holds at most one attendance record per
\* (professor_id, session_id, date) tuple, a missing session_id included.
C1_OneRecordPerTuple ==
    \A i, j \in DOMAIN attendance_records :
        SameTuple(attendance_records[i], attendance_records[j]) => i = j

\* C2: add_professor fails exactly when a stored professor has the id or the
\* email the caller supplied, then changing nothing; otherwise it inserts the
\* professor and returns success.
C2_AddProfessorDuplicateKey ==
    [][op'.name = "add_professor" =>
        LET d   == op'.args
            dup == \E i \in DOMAIN professors :
                       \/ professors[i].id = d.id
                       \/ ("email" \in DOMAIN d /\ professors[i].email = d.email)
        IN /\ (~ret'.ok) <=> dup
           /\ dup => UNCHANGED tables
           /\ ~dup => /\ Len(professors') = Len(professors) + 1
                      /\ professors'[Len(professors')].id = d.id
                      /\ SubSeq(professors', 1, Len(professors)) = professors
      ]_vars

\* C3: the by_department counts of get_attendance_summary(a, b) sum to the
\* total_attendance of the same call.
C3_DepartmentsSumToTotal ==
    op.name = "get_attendance_summary" =>
        SumFn(ret.by_department) = ret.total_attendance

\* C4: the recent-attendance map of get_dashboard_stats called on day D has an
\* entry for D iff a record is dated D, and no entry outside [D-7, D].
C4_RecentWindow ==
    op.name = "get_dashboard_stats" =>
        /\ (Today \in DOMAIN ret.recent_attendance) <=>
               (\E i \in DOMAIN attendance_records :
                    attendance_records[i].date = Today)
        /\ \A d \in DOMAIN ret.recent_attendance :
               Today - 7 <= d /\ d <= Today

\* C9: get_daily_attendance_stats returns attendance_rate = 0 when no
\* professor is active, attended/total*100 otherwise, and
\* absent_today = total_professors - attended_today.
C9_DailyRate ==
    op.name = "get_daily_attendance_stats" =>
        LET date     == Get(op.args, "date", Today)
            total    == Cardinality({j \in DOMAIN professors :
                                        professors[j].is_active})
            attended == Cardinality({r.professor_id :
                            r \in {q \in Range(attendance_records) : q.date = date}})
            rate     == ret.attendance_rate
        IN /\ ret.total_professors = total
           /\ ret.attended_today = attended
           /\ total = 0 => (rate.num = 0 /\ rate.den = 1)
           /\ total > 0 => (rate.den > 0 /\ rate.num * total = attended * 100 * rate.den)
           /\ ret.absent_today = ret.total_professors - ret.attended_today

\* C9 case: the statistics of a day with a check-in while no professor is
\* registered (the division guard is what produces the rate).
C9_Witness ==
    /\ op.name = "get_daily_attendance_stats"
    /\ ret.total_professors = 0
    /\ ret.attended_today > 0
    /\ ret.attendance_rate.num = 0

\* get_professor_schedule lists exactly one entry for every assigned pair of
\* the professor it was called for
ScheduleListsPair ==
    op.name = "get_professor_schedule" =>
        \A i \in DOMAIN professor_courses :
            professor_courses[i].professor_id = op.args.professor_id =>
                Cardinality({k \in DOMAIN ret :
                    \E j \in DOMAIN courses :
                        /\ courses[j].id = professor_courses[i].course_id
                        /\ courses[j].course_code = ret[k].course_code}) = 1

\* C5: a second assign_course_to_professor for a stored (professor_id,
\* course_id) pair fails and stores no row, and get_professor_schedule then
\* lists exactly one entry for the pair.
C5_OneAssignmentPerPair ==
    [][/\ (op'.name = "assign_course_to_professor"
             /\ assignment_exists(professor_courses, op'.args))
          => (~ret'.ok /\ UNCHANGED tables)
       /\ ScheduleListsPair'
      ]_vars

MutatingMethods ==
    {"add_professor", "record_attendance", "create_attendance_session",
     "add_course", "assign_course_to_professor", "create_admin"}

\* C6: every successful mutating call (whose audit INSERT does not itself
\* fail) appends one row to system_logs.
C6_EveryMutationLogged ==
    [][(op'.name \in MutatingMethods /\ ret'.ok /\ ~op'.log_fail)
          => Len(system_logs') = Len(system_logs) + 1
      ]_vars

Extends(t2, t1) == Len(t2) >= Len(t1) /\ SubSeq(t2, 1, Len(t1)) = t1

\* C7: when the audit INSERT of a business call fails, the call still returns
\* success and the business row it committed is in the store.
C7_LogFailureSwallowed ==
    [][op'.log_fail =>
          /\ ret'.ok
          /\ TotalRows' = TotalRows + 1
          /\ Extends(professors', professors)
          /\ Extends(attendance_records', attendance_records)
          /\ Extends(attendance_sessions', attendance_sessions)
          /\ system_logs' = system_logs
      ]_vars

\* C7 case: add_professor returned success with its row stored although its
\* audit INSERT failed.
C7_Witness ==
    /\ op.name = "add_professor"
    /\ op.log_fail
    /\ ret.ok
    /\ \E i \in DOMAIN professors : professors[i].id = op.args.id
    /\ \A k \in DOMAIN system_logs : system_logs[k].details # op.args.id

LoginMatch(d) ==
    {i \in DOMAIN admins : /\ admins[i].username = d.username
                           /\ admins[i].password_hash = Sha256(d.password)}

LoginAppended ==
    /\ Len(system_logs') = Len(system_logs) + 1
    /\ Extends(system_logs', system_logs)
    /\ system_logs'[Len(system_logs')].action = "ADMIN_LOGIN"

LoginResult ==
    LET d == op'.args
    IN /\ ret'.ok <=> LoginMatch(d) # {}
       /\ ret'.ok => \E i \in LoginMatch(d) : ret'.admin = <<admins[i]>>
       /\ ~ret'.ok => (ret'.admin = <<>> /\ UNCHANGED tables)
       /\ UNCHANGED business

\* C10 as stated: authenticate_admin returns (true, admin) exactly on a
\* username/digest match, (false, null) otherwise changing no table, and an
\* ADMIN_LOGIN row is appended iff it returns true.
C10_LoginLoggedIffSuccess ==
    [][op'.name = "authenticate_admin" =>
          /\ LoginResult
          /\ LoginAppended <=> ret'.ok
      ]_vars

\* C10 amended: as above, but the ADMIN_LOGIN row is appended only if the call
\* returns true, and whenever it returns true and the audit INSERT does not
\* fail; a failed audit INSERT leaves system_logs unchanged.
C10_LoginLoggedOnSuccess ==
    [][op'.name = "authenticate_admin" =>
          /\ LoginResult
          /\ LoginAppended => ret'.ok
          /\ (ret'.ok /\ ~op'.log_fail) => LoginAppended
          /\ (ret'.ok /\ op'.log_fail) => system_logs' = system_logs
      ]_vars

\* C10 case: a login with the stored password succeeded and its ADMIN_LOGIN
\* row is the last audit row.
C10_Witness ==
    /\ op.name = "authenticate_admin"
    /\ ret.ok
    /\ ret.admin # <<>>
    /\ ret.admin[1].username = op.args.username
    /\ ~op.log_fail
    /\ system_logs # <<>>
    /\ system_logs[Len(system_logs)].action = "ADMIN_LOGIN"
    /\ system_logs[Len(system_logs)].details = op.args.username

RaceKey(c) ==
    IF req[c].method = "record_attendance"
    THEN <<req[c].method, req[c].args.professor_id,
           Get(req[c].args, "session_id", NULL), req[c].args.date>>
    ELSE <<req[c].method, req[c].args.professor_id, req[c].args.course_id, 0>>

RowsWithKey(c) ==
    IF req[c].method = "record_attendance"
    THEN {i \in DOMAIN attendance_records :
            /\ attendance_records[i].professor_id = req[c].args.professor_id
            /\ attendance_records[i].session_id = Get(req[c].args, "session_id", NULL)
            /\ attendance_records[i].date = req[c].args.date}
    ELSE {i \in DOMAIN professor_courses :
            /\ professor_courses[i].professor_id = req[c].args.professor_id
            /\ professor_courses[i].course_id = req[c].args.course_id}

\* the caller's existence check found no row: it is at, or past, its INSERT
PassedCheck(c) ==
    \/ pc[c] \in {"insert_attendance", "insert_assignment", "log_attendance"}
    \/ pc[c] = "done" /\ req[c].result.ok

InsertPositions == {"insert_attendance", "insert_assignment"}

\* a caller that passed the check inserts its row whatever the table holds
\* by then, and goes on to return success
InsertsAndSucceeds(c) ==
    /\ (pc[c] \in InsertPositions /\ pc'[c] # pc[c]) =>
          /\ Cardinality(RowsWithKey(c)') = Cardinality(RowsWithKey(c)) + 1
          /\ pc'[c] \in {"log_attendance", "done"}
          /\ pc'[c] = "done" => req'[c].result.ok
    /\ (pc[c] = "log_attendance" /\ pc'[c] # pc[c]) =>
          (pc'[c] = "done" /\ req'[c].result.ok)

BothReturnedTwoRows ==
    \A c1, c2 \in Callers :
        (/\ c1 # c2
         /\ pc[c1] = "done" /\ pc[c2] = "done"
         /\ RaceKey(c1) = RaceKey(c2)
         /\ PassedCheck(c1) /\ PassedCheck(c2))
        => Cardinality(RowsWithKey(c1)) >= 2

\* C8: two concurrent record_attendance (or assign_course_to_professor) calls
\* for the same key can both pass the existence check before either inserts;
\* both then insert and return success, leaving two rows for the key.
C8_RaceLeavesTwoRows ==
    /\ [][\A c \in Callers : InsertsAndSucceeds(c)]_vars
    /\ []BothReturnedTwoRows

\* C8 case: both callers passed the check for the same pair before either
\* inserted (the only way to two rows for a key without NULL), after the
\* same had happened for an attendance tuple with a session.
C8_Witness ==
    /\ pc[1] = "done" /\ pc[2] = "done"
    /\ req[1].method = "assign_course_to_professor"
    /\ RaceKey(1) = RaceKey(2)
    /\ req[1].result.ok /\ req[2].result.ok
    /\ Cardinality(RowsWithKey(1)) = 2
    /\ \E i, j \in DOMAIN attendance_records :
          /\ i # j
          /\ attendance_records[i].session_id # NULL
          /\ SameTuple(attendance_records[i], attendance_records[j])

\* C14: get_daily_attendance_stats reports attended_today <= total_professors,
\* so absent_today is never negative, attendance_rate never exceeds 100, and
\* the by_department counts sum to attended_today.
C14_AttendedWithinTotal ==
    op.name = "get_daily_attendance_stats" =>
        /\ ret.attended_today <= ret.total_professors
        /\ ret.absent_today >= 0
        /\ ret.attendance_rate.num <= 100 * ret.attendance_rate.den
        /\ SumFn(ret.by_department) = ret.attended_today

NoDuplicateProfessors ==
    \A i, j \in DOMAIN professors :
        (professors[i].id = professors[j].id
           \/ professors[i].email = professors[j].email) => i = j

\* the INSERT of a caller whose id or email got stored after its check fails,
\* and the caller returns a failure result
LosingInsertFails(c) ==
    (/\ pc[c] = "insert_professor"
     /\ pc'[c] # pc[c]
     /\ \E i \in DOMAIN professors :
           \/ professors[i].id = req[c].args.id
           \/ professors[i].email = Get(req[c].args, "email", ""))
    => /\ professors' = professors
       /\ pc'[c] = "done"
       /\ req'[c].result = Fail("Error adding professor")

\* C13: under any interleaving of concurrent add_professor calls the
\* professors table never holds two rows with one id or one email; the
\* constraints make the losing INSERT fail and that caller gets a failure
\* result.
C13_ConstraintsStopRace ==
    /\ []NoDuplicateProfessors
    /\ [][\A c \in Callers : LosingInsertFails(c)]_vars

\* C13 case: two callers passed the check for one id; one row was stored, the
\* other caller's INSERT was rejected and it returned failure.
C13_Witness ==
    /\ pc[1] = "done" /\ pc[2] = "done"
    /\ req[1].method = "add_professor" /\ req[2].method = "add_professor"
    /\ req[1].args.id = req[2].args.id
    /\ req[1].result.ok
    /\ req[2].result = Fail("Error adding professor")
    /\ Cardinality({i \in DOMAIN professors :
                       professors[i].id = req[1].args.id}) = 1

\* the export call just made: its filters matched no joined record
EmptyExport ==
    /\ op'.name = "export_to_excel"
    /\ get_attendance_records(op'.args.filters) = <<>>

\* C12: export_to_excel with filters that match zero records returns "",
\* writes no file, appends no EXPORT_EXCEL row to system_logs and leaves
\* every table as it was.
C12_EmptyExportChangesNothing ==
    [][EmptyExport => /\ ret' = ""
                      /\ files' = files
                      /\ system_logs' = system_logs
                      /\ business' = business]_vars

\* C12 case: attendance of a registered professor is stored, the filters of
\* the export just made leave none of it, and "" came back.
C12_Witness ==
    /\ op.name = "export_to_excel"
    /\ op.args.filters # <<>>
    /\ JoinProfessors # {}
    /\ get_attendance_records(op.args.filters) = <<>>
    /\ ret = ""

\* system_logs as it was when the backup at path was taken
BackupLog(path) == files[path].rows[7]

\* the log saved in every backup is a prefix of the log now
BackupsArePrefixes ==
    \A path \in DOMAIN files :
        files[path].kind = "db" => Extends(system_logs, BackupLog(path))

\* C11: system_logs is append-only: every step keeps the rows already
\* written, in place and unchanged, so the log at any point (a backup holds
\* one) is a prefix of the log at every later point.
C11_LogAppendOnly ==
    /\ []BackupsArePrefixes
    /\ [][Extends(system_logs', system_logs)]_vars

\* C11 case: a backup holds an earlier, non-empty log, and other methods have
\* appended to the log since.
C11_Witness ==
    /\ "backup.db" \in DOMAIN files
    /\ BackupLog("backup.db") # <<>>
    /\ Len(system_logs) >= Len(BackupLog("backup.db")) + 2
    /\ Extends(system_logs, BackupLog("backup.db"))
====
